---- MODULE Spec2Model ----
(***************************************************************************)
(* Model of extract_midi.py: the SynthesiaExtractor class.                 *)
(*                                                                         *)
(* Time.  The code computes times as Python floats frame_num / fps.  The   *)
(* model keeps every time as an exact integer number of ticks, one tick    *)
(* being 1/(Hundred * fps) seconds, so frame n is at tick n * Hundred and  *)
(* x hundredths of a second are x * fps ticks.  Seconds given to the       *)
(* program (skip_seconds, min_duration) are held in hundredths.            *)
(* Floating-point rounding is not modelled.                                *)
(***************************************************************************)
EXTENDS Integers, Sequences, FiniteSets, TLC

VARIABLES
    pc,             \* position of the run: new, ready, loop, done, error
    error_at,       \* the source line that raised (0: none)
    c_left_edge,    \* self.c_left_edge, as a sequence of <<pitch, x>> in dict order
    fps,            \* self.fps
    total_frames,   \* self.total_frames
    note_positions, \* self.note_positions: pitch -> [x, is_black]
    key_order,      \* the iteration order of self.note_positions (dict insertion order)
    skip_seconds,   \* extract()'s skip_seconds, in hundredths of a second
    frame_num,      \* extract()'s frame_num
    frames_read,    \* number of frames cap.read() has delivered to extract()
    note_state,     \* extract()'s note_state: pitch -> [active, start_time, hand, unlit_count]
    all_notes,      \* extract()'s all_notes
    verdicts,       \* the is_key_lit results of the frames processed, oldest first
    saved,          \* _save_midi has written the output file
    region,         \* classifier run: the sampled pixel neighbourhood
    lit_result      \* classifier run: what is_key_lit returned for it

vars == <<pc, error_at, c_left_edge, fps, total_frames, note_positions, key_order,
          skip_seconds,
          frame_num, frames_read, note_state, all_notes, verdicts, saved, region,
          lit_result>>

\* ------------------------------------------------------------------ bounds
MaxFrames == 7      \* frames in the video
MaxRegion == 4      \* pixels in a sampled neighbourhood of the classifier run

\* ------------------------------------------------------- program constants
Hundred == 100
release_debounce_frames == 2
min_duration == 3                \* 0.03 s
unlit_count_init == 999
TopPitch == 108
C7 == 96
WhiteKeysPerOctave == 7
HueGreenLo == 35
HueGreenHi == 85
HueBlueLo == 85
HueBlueHi == 135
SatFloor == 50
ValFloor == 50
LitNum == 3                      \* lit_threshold 0.3 = LitNum / LitDen
LitDen == 10

None == "None"

\* start_time None: a value no frame time takes
NoTime == 0 - 1

\* ---------------------------------------------------------------- geometry
DefaultCalibration ==
    << <<24, 51>>, <<36, 224>>, <<48, 396>>, <<60, 567>>, <<72, 742>>, <<84, 914>>,
       <<96, 1086>> >>

\* Calibration mappings handed to the constructor: none (the default is used),
\* two C points including C7, two C points without C7, a single C point.
Calibrations ==
    { <<>>,
      << <<84, 914>>, <<96, 1086>> >>,
      << <<48, 396>>, <<60, 567>> >>,
      << <<96, 1086>> >> }

CPitches(cal) == { cal[i][1] : i \in 1..Len(cal) }

CLeft(cal, c) == (CHOOSE i \in 1..Len(cal) : cal[i][1] = c)

LeftEdge(cal, c) == cal[CLeft(cal, c)][2]

\* sorted(self.c_left_edge.keys())
RECURSIVE SortedSeq(_)
SortedSeq(S) ==
    IF S = {} THEN <<>>
    ELSE LET m == CHOOSE x \in S : \A y \in S : x <= y
         IN <<m>> \o SortedSeq(S \ {m})

\* sum of the consecutive differences octave_widths
RECURSIVE SumWidths(_, _, _)
SumWidths(cal, cs, i) ==
    IF i >= Len(cs) THEN 0
    ELSE (LeftEdge(cal, cs[i + 1]) - LeftEdge(cal, cs[i])) + SumWidths(cal, cs, i + 1)

\* octave_width = np.mean(octave_widths) as the fraction [num, den]; den = 0
\* is the mean of an empty list (nan).
octave_width(cal) ==
    LET cs == SortedSeq(CPitches(cal))
    IN [num |-> SumWidths(cal, cs, 1), den |-> Len(cs) - 1]

white_positions == <<0, 2, 4, 5, 7, 9, 11>>

black_info == << <<1, 0, 1>>, <<3, 1, 2>>, <<6, 3, 4>>, <<8, 4, 5>>, <<10, 5, 6>> >>

\* int(c_left + (i + 0.5) * white_key_width), i 0-based
WhiteX(cal, c_left, i) ==
    LET ow == octave_width(cal)
    IN c_left + ((2 * i + 1) * ow.num) \div (2 * WhiteKeysPerOctave * ow.den)

\* int(c_left + (left_white + 1) * white_key_width)
BlackX(cal, c_left, left_white) ==
    LET ow == octave_width(cal)
    IN c_left + ((left_white + 1) * ow.num) \div (WhiteKeysPerOctave * ow.den)

\* The pitches written by the loop over the calibrated Cs, in insertion order.
RECURSIVE OctaveKeys(_, _)
OctaveKeys(cal, i) ==
    IF i > Len(cal) THEN <<>>
    ELSE [k \in 1..7 |-> cal[i][1] + white_positions[k]]
         \o [k \in 1..5 |-> cal[i][1] + black_info[k][1]]
         \o OctaveKeys(cal, i + 1)

\* The pitches written by the loop that extends from C7.
TopKeys == { C7 + white_positions[k] : k \in { j \in 1..7 : C7 + white_positions[j] <= TopPitch } }

IsWhiteOffset(s) == \E k \in 1..7 : white_positions[k] = s

WhiteIndex(s) == (CHOOSE k \in 1..7 : white_positions[k] = s) - 1

BlackLeft(s) == black_info[CHOOSE k \in 1..5 : black_info[k][1] = s][2]

SeqRange(s) == { s[i] : i \in 1..Len(s) }

\* A pitch's octave start among the calibrated Cs (the last one that wrote it).
OctaveOf(cal, midi) == CHOOSE c \in CPitches(cal) : midi - c \in 0..11

\* _build_note_positions
BuildNotePositions(cal) ==
    LET order == OctaveKeys(cal, 1)
        keys == SeqRange(order) \cup TopKeys
    IN [midi \in keys |->
          IF midi \in TopKeys
          THEN [x |-> WhiteX(cal, LeftEdge(cal, C7), WhiteIndex(midi - C7)),
                is_black |-> FALSE]
          ELSE LET c == OctaveOf(cal, midi)
                   s == midi - c
               IN IF IsWhiteOffset(s)
                  THEN [x |-> WhiteX(cal, LeftEdge(cal, c), WhiteIndex(s)),
                        is_black |-> FALSE]
                  ELSE [x |-> BlackX(cal, LeftEdge(cal, c), BlackLeft(s)),
                        is_black |-> TRUE]]

\* The order in which extract() visits the keys: dict insertion order.
KeyOrder(cal) ==
    LET order == OctaveKeys(cal, 1)
    IN order \o SelectSeq(SortedSeq(TopKeys), LAMBDA k : k \notin SeqRange(order))

\* -------------------------------------------------------------- classifier
\* green_mask / blue_mask of one HSV pixel
green_mask(p) == p.h >= HueGreenLo /\ p.h <= HueGreenHi /\ p.s > SatFloor /\ p.v > ValFloor

blue_mask(p) == p.h >= HueBlueLo /\ p.h <= HueBlueHi /\ p.s > SatFloor /\ p.v > ValFloor

\* np.sum(mask) over the region, the region flattened to a sequence of pixels
GreenCount(reg) == Cardinality({ i \in 1..Len(reg) : green_mask(reg[i]) })

BlueCount(reg) == Cardinality({ i \in 1..Len(reg) : blue_mask(reg[i]) })

Unlit == [is_lit |-> FALSE, hand |-> None]

\* is_key_lit on the sampled region: ratio >= lit_threshold, green first
is_key_lit(reg) ==
    LET total_pixels == Len(reg)
    IN IF GreenCount(reg) * LitDen >= LitNum * total_pixels
       THEN [is_lit |-> TRUE, hand |-> "left"]
       ELSE IF BlueCount(reg) * LitDen >= LitNum * total_pixels
            THEN [is_lit |-> TRUE, hand |-> "right"]
            ELSE Unlit

\* is_key_lit returns before sampling when the clamped box is empty, so a
\* sampled region holds at least one pixel.
\* Pixels of the classifier run: hues on both sides of every hue bound, and
\* one pixel on each of the saturation and value floors.
Palette ==
    { [h |-> hh, s |-> SatFloor + 1, v |-> ValFloor + 1] :
          hh \in { HueGreenLo - 1, HueGreenLo, HueGreenHi, HueGreenHi + 1,
                   HueBlueHi, HueBlueHi + 1 } }
    \cup { [h |-> 60, s |-> SatFloor, v |-> 200], [h |-> 110, s |-> 200, v |-> ValFloor] }

Regions == UNION { [1..n -> Palette] : n \in 1..MaxRegion }

\* The neighbourhoods a frame of the extraction run shows at a key.
GrayRegion == << [h |-> 0, s |-> 0, v |-> 128] >>

GreenRegion == << [h |-> 60, s |-> 200, v |-> 200] >>

BlueRegion == << [h |-> 110, s |-> 200, v |-> 200] >>

FrameRegions == {GrayRegion, GreenRegion, BlueRegion}

\* -------------------------------------------------------------- extraction
FpsChoices == {0, 30, 60, 120}

SkipChoices == {0, 5}            \* skip_seconds 0 s and 0.05 s

Watched == {60}                  \* the pitches the video lights

\* frame_num / self.fps, in ticks
TimeOf(n) == n * Hundred

\* int(skip_seconds * self.fps)
StartFrame(skip, f) == (skip * f) \div Hundred

NewKeyState ==
    [active |-> FALSE, start_time |-> NoTime, hand |-> None, unlit_count |-> unlit_count_init]

\* LitUpdate with the hand taken from every lit frame
LitUpdateHand(st, hand, time_sec) ==
    IF ~st.active
    THEN [active |-> TRUE, start_time |-> time_sec, hand |-> hand, unlit_count |-> 0]
    ELSE [st EXCEPT !.unlit_count = 0, !.hand = hand]

\* the lit branch of the per-key step
LitUpdate(st, hand, time_sec) ==
    IF ~st.active
    THEN [active |-> TRUE, start_time |-> time_sec, hand |-> hand, unlit_count |-> 0]
    ELSE [st EXCEPT !.unlit_count = 0]

\* ReleaseDue with the release on the first unlit frame
ReleaseOnFirstUnlit(st) == st.active /\ st.unlit_count >= 1

\* the release test of the unlit branch
ReleaseDue(st) == st.active /\ st.unlit_count >= release_debounce_frames

\* EndTime without the back-dating
EndTimeNotBackdated(time_sec) == time_sec

\* end_time = time_sec - (release_debounce_frames - 1) / fps
EndTime(time_sec) == time_sec - (release_debounce_frames - 1) * Hundred

\* Keep without the minimum-duration floor
KeepAll(dur, f) == TRUE

\* dur >= min_duration
Keep(dur, f) == dur >= min_duration * f

\* Released with the key left active
ReleasedStillActive(st) == st

\* the key's state after the release
Released(st) == [st EXCEPT !.active = FALSE, !.start_time = NoTime]

Note(midi, st, dur) ==
    [midi |-> midi, start |-> st.start_time, duration |-> dur, hand |-> st.hand]

\* One key's part of one frame: the new state and the notes appended.
KeyStep(midi, st, v, time_sec, f) ==
    IF v.is_lit
    THEN [st |-> LitUpdate(st, v.hand, time_sec), out |-> <<>>]
    ELSE LET st1 == [st EXCEPT !.unlit_count = @ + 1]
         IN IF ReleaseDue(st1)
            THEN LET dur == EndTime(time_sec) - st1.start_time
                 IN [st |-> Released(st1),
                     out |-> IF Keep(dur, f) THEN <<Note(midi, st1, dur)>> ELSE <<>>]
            ELSE [st |-> st1, out |-> <<>>]

\* for midi in self.note_positions: ... over one frame.  fr gives the region
\* the frame shows at each watched key; every other key shows gray.  Each key
\* reads and writes only its own entry of note_state, so the loop is one
\* KeyStep per key, the notes appended in the order the keys are visited.
StateOf(ns, midi) == IF midi \in DOMAIN ns THEN ns[midi] ELSE NewKeyState

ProcessKeys(order, ns, notes, fr, time_sec, f) ==
    LET visited == SeqRange(order)
        gray == is_key_lit(GrayRegion)
        step == [midi \in visited |->
                    KeyStep(midi, StateOf(ns, midi),
                            IF midi \in DOMAIN fr THEN is_key_lit(fr[midi]) ELSE gray,
                            time_sec, f)]
        emitting == SelectSeq(order, LAMBDA midi : step[midi].out # <<>>)
    IN [ns |-> [midi \in DOMAIN ns \cup visited |->
                   IF midi \in visited THEN step[midi].st ELSE ns[midi]],
        notes |-> notes \o [i \in 1..Len(emitting) |-> step[emitting[i]].out[1]]]

\* the loop that closes the remaining notes
StillOpen(ns, midi) == midi \in DOMAIN ns /\ ns[midi].active /\ ns[midi].start_time # NoTime

CloseRemaining(order, ns, notes, final_time, f) ==
    LET closing == SelectSeq(order, LAMBDA midi :
                       StillOpen(ns, midi) /\ Keep(final_time - ns[midi].start_time, f))
    IN notes \o [i \in 1..Len(closing) |->
                    Note(closing[i], ns[closing[i]], final_time - ns[closing[i]].start_time)]

NoFunc == [k \in {} |-> 0]

\* ---------------------------------------------------------------- actions
\* SynthesiaExtractor(video, c_positions=cal) on a video of tf frames at f fps
Construct(cal, f, tf) ==
    /\ pc = "new"
    /\ LET eff == IF cal = <<>> THEN DefaultCalibration ELSE cal
       IN /\ c_left_edge' = eff
          /\ fps' = f
          /\ total_frames' = tf
          /\ IF octave_width(eff).den = 0
             THEN \* white_key_width is nan: int(x) raises
                  /\ pc' = "error" /\ error_at' = 60
                  /\ note_positions' = NoFunc
                  /\ key_order' = <<>>
             ELSE IF C7 \notin CPitches(eff)
             THEN \* self.c_left_edge[96] raises KeyError
                  /\ pc' = "error" /\ error_at' = 68
                  /\ note_positions' = NoFunc
                  /\ key_order' = <<>>
             ELSE /\ pc' = "ready" /\ error_at' = 0
                  /\ note_positions' = BuildNotePositions(eff)
                  /\ key_order' = KeyOrder(eff)
    /\ UNCHANGED <<skip_seconds, frame_num, frames_read, note_state, all_notes,
                   verdicts, saved, region, lit_result>>

\* extract(skip_seconds=skip) up to the loop
ExtractStart(skip) ==
    /\ pc = "ready"
    /\ skip_seconds' = skip
    /\ frame_num' = StartFrame(skip, fps)
    /\ note_state' = NoFunc
    /\ all_notes' = <<>>
    /\ pc' = "loop"
    /\ UNCHANGED <<error_at, c_left_edge, fps, total_frames, note_positions, key_order,
                   frames_read, verdicts, saved, region, lit_result>>

\* One iteration of the loop with ret true.  The frame source is taken to
\* report its frame count exactly: it delivers frames 0 .. total_frames - 1.
ReadFrame(fr) ==
    /\ pc = "loop"
    /\ frame_num < total_frames
    /\ frames_read' = frames_read + 1
    /\ IF fps = 0
       THEN \* time_sec = frame_num / self.fps raises ZeroDivisionError
            /\ pc' = "error" /\ error_at' = 146
            /\ UNCHANGED <<frame_num, note_state, all_notes, verdicts>>
       ELSE LET r == ProcessKeys(key_order, note_state, all_notes, fr,
                                 TimeOf(frame_num), fps)
            IN /\ note_state' = r.ns
               /\ all_notes' = r.notes
               /\ verdicts' = Append(verdicts, [k \in DOMAIN fr |-> is_key_lit(fr[k])])
               /\ frame_num' = frame_num + 1
               /\ UNCHANGED <<pc, error_at>>
    /\ UNCHANGED <<c_left_edge, fps, total_frames, note_positions, key_order, skip_seconds,
                   saved,
                   region, lit_result>>

\* ret false: leave the loop, close the remaining notes, save and return
EndOfStream ==
    /\ pc = "loop"
    /\ frame_num >= total_frames
    /\ IF fps = 0
       THEN \* final_time = self.total_frames / self.fps raises ZeroDivisionError
            /\ pc' = "error" /\ error_at' = 192
            /\ UNCHANGED <<all_notes, saved>>
       ELSE /\ all_notes' = CloseRemaining(key_order, note_state, all_notes,
                                           TimeOf(total_frames), fps)
            /\ saved' = TRUE
            /\ pc' = "done"
            /\ UNCHANGED error_at
    /\ UNCHANGED <<c_left_edge, fps, total_frames, note_positions, key_order, skip_seconds,
                   frame_num, frames_read, note_state, verdicts, region, lit_result>>

\* is_key_lit applied to one sampled neighbourhood
Classify ==
    /\ pc = "sampled"
    /\ lit_result' = is_key_lit(region)
    /\ pc' = "classified"
    /\ UNCHANGED <<error_at, c_left_edge, fps, total_frames, note_positions, key_order,
                   skip_seconds, frame_num, frames_read, note_state, all_notes, verdicts, saved, region>>

Blank ==
    /\ error_at = 0
    /\ c_left_edge = <<>>
    /\ fps = 0
    /\ total_frames = 0
    /\ note_positions = NoFunc
    /\ key_order = <<>>
    /\ skip_seconds = 0
    /\ frame_num = 0
    /\ frames_read = 0
    /\ note_state = NoFunc
    /\ all_notes = <<>>
    /\ verdicts = <<>>
    /\ saved = FALSE

Init ==
    /\ pc = "new"
    /\ Blank
    /\ region = <<>>
    /\ lit_result = None

Next ==
    \/ \E cal \in Calibrations, f \in FpsChoices, tf \in 0..MaxFrames : Construct(cal, f, tf)
    \/ \E skip \in SkipChoices : ExtractStart(skip)
    \/ \E fr \in [Watched \cap DOMAIN note_positions -> FrameRegions] : ReadFrame(fr)
    \/ EndOfStream

Spec == Init /\ [][Next]_vars

\* The classifier run: is_key_lit on every neighbourhood of Regions.
InitClassify ==
    /\ pc = "sampled"
    /\ Blank
    /\ region \in Regions
    /\ lit_result = None

NextClassify == Classify

SpecClassify == InitClassify /\ [][NextClassify]_vars

\* ------------------------------------------------------------------ claims
\* The keys whose verdict stream the run records.
Tracked == Watched \cap DOMAIN note_positions

\* The extraction loop has run with a usable frame rate.
Running == pc \in {"loop", "done"} /\ fps > 0

NumSeen == Len(verdicts)

\* The time (ticks) of the i-th processed frame.
SeenTime(i) == TimeOf(StartFrame(skip_seconds, fps) + i - 1)

LitAt(k, i) == i \in 1..NumSeen /\ verdicts[i][k].is_lit

\* Frame i is the first lit frame of a press: lit, and the two frames before
\* it (where they exist) unlit.
PressStart(k, i) == LitAt(k, i) /\ ~LitAt(k, i - 1) /\ ~LitAt(k, i - 2)

\* Frame i is the second of two consecutive unlit frames after a lit one.
CloseAt(k, i) == i \in 3..NumSeen /\ LitAt(k, i - 2) /\ ~LitAt(k, i - 1) /\ ~LitAt(k, i)

\* The first lit frame of the press that frame i belongs to.
PressOf(k, i) ==
    CHOOSE p \in 1..i : PressStart(k, p) /\ \A m \in (p + 1)..i : ~PressStart(k, m)

\* The notes of key k that start at processed frame p.
NotesOf(k, p) ==
    { j \in 1..Len(all_notes) : all_notes[j].midi = k /\ all_notes[j].start = SeenTime(p) }

\* The duration (ticks) of the press closed at frame i, end back-dated to the
\* first unlit frame i - 1.
ClosedDur(k, i) == SeenTime(i - 1) - SeenTime(PressOf(k, i - 2))

\* 0.03 s in ticks
MinTicks == 3 * fps

\* A press that no frame seen so far has closed.
OpenPress(k, p) == PressStart(k, p) /\ \A i \in (p + 1)..NumSeen : ~CloseAt(k, i)

\* C1 (as stated): every press closed by two consecutive unlit frames has
\* exactly one NoteEvent, starting at the first lit frame of the press and
\* ending at the first unlit frame of the closing run.
C1_ExactlyOneNotePerClose ==
    Running =>
        \A k \in Tracked : \A i \in 1..NumSeen :
            CloseAt(k, i) =>
                LET p == PressOf(k, i - 2)
                IN /\ Cardinality(NotesOf(k, p)) = 1
                   /\ \A j \in NotesOf(k, p) :
                          all_notes[j].start + all_notes[j].duration = SeenTime(i - 1)

\* C1 (amended): a press closed by two consecutive unlit frames has exactly
\* one NoteEvent when its duration, first lit frame to first unlit frame of
\* the closing run, is at least 0.03 s, and none otherwise; the note starts at
\* the first lit frame and ends at the first unlit frame of the closing run;
\* while the loop runs, a press not yet closed has no NoteEvent.
C1_DebounceClose ==
    Running =>
        \A k \in Tracked :
            /\ \A i \in 1..NumSeen :
                  CloseAt(k, i) =>
                      LET p == PressOf(k, i - 2)
                      IN IF ClosedDur(k, i) >= MinTicks
                         THEN /\ Cardinality(NotesOf(k, p)) = 1
                              /\ \A j \in NotesOf(k, p) :
                                     all_notes[j].start + all_notes[j].duration
                                         = SeenTime(i - 1)
                         ELSE NotesOf(k, p) = {}
            /\ \A p \in 1..NumSeen :
                  (pc = "loop" /\ OpenPress(k, p)) => NotesOf(k, p) = {}

\* C1 witness: [lit, lit, lit, unlit, unlit, unlit] at 30 fps from t = 0 has
\* given one note from 0 to 3/30 s.
C1_Witness ==
    /\ pc = "loop" /\ fps = 30 /\ skip_seconds = 0 /\ NumSeen = 6
    /\ 60 \in Tracked
    /\ \A i \in 1..3 : LitAt(60, i)
    /\ \A i \in 4..6 : ~LitAt(60, i)
    /\ Len(all_notes) = 1
    /\ all_notes[1].midi = 60 /\ all_notes[1].start = 0
    /\ all_notes[1].duration = 3 * Hundred

\* C2 (as stated): when the stream has ended, a key still Pressed has exactly
\* one NoteEvent from its start_time to the time of the last processed frame
\* when that duration is at least 0.03 s, and none otherwise.
C2_FinalFrameTime ==
    (pc = "done") =>
        \A k \in Tracked :
            (k \in DOMAIN note_state /\ note_state[k].active) =>
                LET st == note_state[k]
                    dur == TimeOf(frame_num - 1) - st.start_time
                    mine == { j \in 1..Len(all_notes) :
                                all_notes[j].midi = k /\ all_notes[j].start = st.start_time }
                IN IF dur >= MinTicks
                   THEN /\ Cardinality(mine) = 1
                        /\ \A j \in mine : all_notes[j].duration = dur
                   ELSE mine = {}

\* C3: every NoteEvent has a duration of at least 0.03 s, hence above zero; a
\* press closed with a shorter duration, by the debounce or at the end of the
\* stream, has no NoteEvent, and after a debounce close the key is Idle.
C3_MinDuration ==
    Running =>
        /\ \A j \in 1..Len(all_notes) :
              all_notes[j].duration >= MinTicks /\ all_notes[j].duration > 0
        /\ \A k \in Tracked : \A i \in 1..NumSeen :
              CloseAt(k, i) =>
                  /\ ClosedDur(k, i) < MinTicks => NotesOf(k, PressOf(k, i - 2)) = {}
                  /\ i = NumSeen => ~note_state[k].active
        /\ \A k \in Tracked : \A p \in 1..NumSeen :
              (pc = "done" /\ OpenPress(k, p) /\ note_state[k].active
               /\ TimeOf(total_frames) - SeenTime(p) < MinTicks)
                  => NotesOf(k, p) = {}

\* C3 witness: a press has just been closed by the debounce with a duration
\* below 0.03 s; it left no note and the key is Idle.
C3_Witness ==
    /\ pc = "loop"
    /\ \E k \in Tracked :
          /\ CloseAt(k, NumSeen)
          /\ ClosedDur(k, NumSeen) < MinTicks
          /\ all_notes = <<>>
          /\ ~note_state[k].active

\* The press closed at frame i holds an isolated unlit frame.
HasDropout(k, i) == \E d \in (PressOf(k, i - 2) + 1)..(i - 3) : ~LitAt(k, d)

C5_All88Keys ==
    (pc # "new" /\ Len(c_left_edge) >= 2) =>
        /\ pc # "error"
        /\ DOMAIN note_positions = 21..108

\* C6 (as stated): every NoteEvent starts at or after the skip offset.
C6_StartAfterSkip ==
    \A j \in 1..Len(all_notes) : all_notes[j].start >= skip_seconds * fps

\* C7 (as stated): a pixel is green-like iff hue in [35,85], saturation > 50
\* and value > 50, blue-like iff hue in (85,135] with the same floors, and
\* the verdict is left if the green fraction is at least 0.3, else right if
\* the blue fraction is at least 0.3, else unlit.
C7_GreenLike(p) == p.h \in 35..85 /\ p.s > 50 /\ p.v > 50

C7_BlueLike(p) == p.h \in 86..135 /\ p.s > 50 /\ p.v > 50

C7_Verdict(reg) ==
    LET g == Cardinality({ i \in 1..Len(reg) : C7_GreenLike(reg[i]) })
        b == Cardinality({ i \in 1..Len(reg) : C7_BlueLike(reg[i]) })
    IN IF 10 * g >= 3 * Len(reg) THEN [is_lit |-> TRUE, hand |-> "left"]
       ELSE IF 10 * b >= 3 * Len(reg) THEN [is_lit |-> TRUE, hand |-> "right"]
       ELSE [is_lit |-> FALSE, hand |-> None]

\* C7 (as stated), over the classifier run.
C7_Classes ==
    (pc = "classified") =>
        /\ \A i \in 1..Len(region) :
              /\ green_mask(region[i]) <=> C7_GreenLike(region[i])
              /\ blue_mask(region[i]) <=> C7_BlueLike(region[i])
              /\ ~(green_mask(region[i]) /\ blue_mask(region[i]))
        /\ lit_result = C7_Verdict(region)

\* C8 (as stated): with a frame rate of zero the run is in error from
\* construction on: no frame is read, no key state exists, nothing is saved.
C8_ZeroFpsFatalAtConstruction ==
    (fps = 0 /\ pc # "new") =>
        /\ pc = "error"
        /\ error_at <= 75
        /\ frames_read = 0
        /\ note_state = NoFunc
        /\ ~saved

\* The hand of the verdict at the processed frame whose time is t.
HandAtTime(k, t) == verdicts[(t \div Hundred) - StartFrame(skip_seconds, fps) + 1][k].hand

\* C9: a Pressed key keeps the start_time and hand of the first lit frame of
\* its press through every later lit frame, which only sets the unlit counter
\* to 0; every NoteEvent carries the hand of the first lit frame of its press.
C9_FirstHandWins ==
    Running =>
        \A k \in Tracked :
            /\ LitAt(k, NumSeen) =>
                  LET p == PressOf(k, NumSeen)
                  IN note_state[k] = [active |-> TRUE, start_time |-> SeenTime(p),
                                      hand |-> verdicts[p][k].hand, unlit_count |-> 0]
            /\ \A j \in 1..Len(all_notes) :
                  all_notes[j].midi = k =>
                      all_notes[j].hand = HandAtTime(k, all_notes[j].start)

\* C9 witness: a note whose press had a later lit frame of the other hand.
C9_Witness ==
    /\ Running
    /\ \E k \in Tracked : \E j \in 1..Len(all_notes) : \E i \in 1..NumSeen :
          /\ all_notes[j].midi = k
          /\ SeenTime(i) > all_notes[j].start
          /\ SeenTime(i) < all_notes[j].start + all_notes[j].duration
          /\ LitAt(k, i)
          /\ verdicts[i][k].hand # all_notes[j].hand

\* C10: two NoteEvents of the same pitch never overlap: the later one starts
\* strictly after the earlier one ends.
C10_NoOverlap ==
    \A i \in 1..Len(all_notes) : \A j \in (i + 1)..Len(all_notes) :
        all_notes[i].midi = all_notes[j].midi =>
            all_notes[j].start > all_notes[i].start + all_notes[i].duration

\* C10 witness: two notes of one pitch, the second closed at the end of the
\* stream.
C10_Witness ==
    /\ pc = "done"
    /\ \E i \in 1..Len(all_notes) : \E j \in (i + 1)..Len(all_notes) :
          /\ all_notes[i].midi = all_notes[j].midi
          /\ \E k \in Tracked : k = all_notes[j].midi /\ note_state[k].active

====
